---- MODULE Spec2Model ----
(***************************************************************************)
(* Model of video_api.py: the POST /stitch handler (stitch_videos) and the  *)
(* VideoStitcher strategies it calls (stitch_videos_ffmpeg,                *)
(* _concat_demuxer, _concat_filter).                                       *)
(*                                                                         *)
(* Strings are sequences of string tokens, so that formatting, joining and *)
(* suffix tests are computed.  The filesystem is the set of directories    *)
(* fsDirs and the function fsFiles from file paths to contents.  The       *)
(* external tool is a black box: every invocation draws its outcome        *)
(* (cannot be launched / exit 0 / exit nonzero with a diagnostic, output   *)
(* written or not) nondeterministically.  The faults drawn are: the disk   *)
(* refusing to open or to write a staged upload or the manifest, the tool  *)
(* not launching, rmtree failing (ignored by ignore_errors=True), the      *)
(* response refusing a header value that latin-1 cannot encode, and the    *)
(* handler being cancelled at its only await (line 162).  Reading a file   *)
(* that exists succeeds; a file or directory that is gone makes the call   *)
(* that needs it raise.  The clause `except CalledProcessError` of line   *)
(* 209 matches nothing the try block can raise: both strategies catch that *)
(* class themselves (lines 57 and 82).                                     *)
(*                                                                         *)
(* Spec handles one request per behaviour, in either request slot, and any *)
(* number of GET /health requests.  SpecTwin handles the same request      *)
(* twice, one after the other.  SpecConc handles two requests at once,     *)
(* their steps interleaved in any order.                                   *)
(***************************************************************************)
EXTENDS Integers, Sequences, FiniteSets, TLC

\* ------------------------------------------------------------------ bounds
NumReq == 2      \* request slots
MaxFiles == 3    \* longest upload list
NumDirs == 3     \* names mkdtemp can draw
MaxOut == 1      \* longest output the tool writes, in bytes

Reqs == 1..NumReq

\* ----------------------------------------------------------- string helpers
Digits == <<"0", "1", "2", "3", "4", "5", "6", "7", "8", "9">>

\* str(n) for 0 <= n < 1000, without padding
Str(n) ==
  IF n < 10 THEN <<Digits[n + 1]>>
  ELSE IF n < 100 THEN <<Digits[(n \div 10) + 1], Digits[(n % 10) + 1]>>
  ELSE <<Digits[(n \div 100) + 1], Digits[((n \div 10) % 10) + 1], Digits[(n % 10) + 1]>>

\* f"{i:03d}" for 0 <= i < 1000
Pad3(n) ==
  <<Digits[((n \div 100) % 10) + 1], Digits[((n \div 10) % 10) + 1], Digits[(n % 10) + 1]>>

\* str.endswith(suffix)
EndsWith(s, suf) ==
  /\ Len(s) >= Len(suf)
  /\ SubSeq(s, Len(s) - Len(suf) + 1, Len(s)) = suf

\* the tuple of suffixes of line 155
AllowedSuffixes ==
  { <<".", "m", "p", "4">>, <<".", "a", "v", "i">>, <<".", "m", "o", "v">>,
    <<".", "m", "k", "v">>, <<".", "w", "e", "b", "m">> }

\* str.lower() on the letters the inputs use
Lower(s) ==
  [k \in 1..Len(s) |-> IF s[k] = "M" THEN "m" ELSE IF s[k] = "P" THEN "p" ELSE s[k]]

\* variant: the suffix test ignores case
ValidExtensionAnyCase(filename) ==
  \E suf \in AllowedSuffixes : EndsWith(Lower(filename), suf)

\* file.filename.endswith(('.mp4', '.avi', '.mov', '.mkv', '.webm'))
ValidExtension(filename) == \E suf \in AllowedSuffixes : EndsWith(filename, suf)

\* os.path.join(dir, name)
PathJoin(dir, name) == dir \o <<"/">> \o name

\* os.path.abspath(p): an absolute path is kept, a relative one is put under
\* the working directory
AbsPath(p) == IF Len(p) > 0 /\ p[1] = "/" THEN p ELSE <<"/", "cwd", "/">> \o p

\* p lies inside directory d
Under(p, d) ==
  /\ Len(p) > Len(d) + 1
  /\ SubSeq(p, 1, Len(d)) = d
  /\ p[Len(d) + 1] = "/"

\* ------------------------------------------------------------------ inputs
\* uploads a client can send: two accepted names, one rejected (the suffix
\* test is case sensitive)
Uploads ==
  { [filename |-> <<"a", ".", "m", "p", "4">>, content |-> <<1>>],
    [filename |-> <<"b", ".", "w", "e", "b", "m">>, content |-> <<2, 2>>],
    [filename |-> <<"c", ".", "M", "P", "4">>, content |-> <<3>>] }

UploadLists == UNION { [1..n -> Uploads] : n \in 0..MaxFiles }

\* values of the method form field; the last one stands for a string holding
\* a character outside latin-1
Methods == {"concat", "filter", "filter_U+2713"}

\* v.encode("latin-1") of a response header value succeeds
Latin1Encodable(s) == s # "filter_U+2713"

\* directories tempfile.mkdtemp(prefix="video_stitch_") can create
TempDirs == { <<"/", "tmp", "/", "video_stitch_", Digits[k + 1]>> : k \in 1..NumDirs }

\* values of str(uuid.uuid4())[:8]
Uids == {"1f0e3dad", "9b2c4e6a"}

\* diagnostics the tool prints on its error stream
Stderrs == {"Invalid data found", "Conversion failed"}

RECURSIVE BytesOfLen(_)
BytesOfLen(n) == IF n = 0 THEN <<>> ELSE <<0>> \o BytesOfLen(n - 1)

\* outcomes of one subprocess.run(cmd, capture_output=True, text=True, check=True)
ToolOutcomes ==
  { [launched |-> FALSE, returncode |-> 0, stderr |-> "", wrote |-> FALSE, data |-> <<>>] }
  \cup { [launched |-> TRUE, returncode |-> 0, stderr |-> "", wrote |-> TRUE,
          data |-> BytesOfLen(n)] : n \in 0..MaxOut }
  \cup { [launched |-> TRUE, returncode |-> 0, stderr |-> "", wrote |-> FALSE, data |-> <<>>] }
  \cup { [launched |-> TRUE, returncode |-> 1, stderr |-> s, wrote |-> w, data |-> <<>>] :
          s \in Stderrs, w \in BOOLEAN }

\* ------------------------------------------------------------------- state
VARIABLES
  pc,            \* position of each request's handler
  files,         \* the uploads of the request, in upload order
  method,        \* the method form field
  temp_dir,      \* line 145
  video_paths,   \* line 150
  i,             \* loop index of line 154
  unique_id,     \* line 169
  output_path,   \* line 171
  result_path,   \* line 176
  file_size,     \* line 183
  video_content, \* line 187
  exc,           \* exception in flight inside the try block
  toolres,       \* outcome of the last subprocess.run
  resp,          \* what the caller receives
  outcome,       \* how the handler ended
  fsDirs,        \* directories on disk
  fsFiles,       \* files on disk and their contents
  calls,         \* history: tool invocations of the request
  log,           \* history: steps the request has taken
  health         \* what the last GET /health gave its caller

locals == <<files, method, temp_dir, video_paths, i, unique_id, output_path,
            result_path, file_size, video_content>>
vars == <<pc, files, method, temp_dir, video_paths, i, unique_id, output_path,
          result_path, file_size, video_content, exc, toolres, resp, outcome,
          fsDirs, fsFiles, calls, log, health>>

NoExc == [type |-> "none", msg |-> <<>>]
NoHeaders == [count |-> <<>>, size |-> <<>>, method |-> "", request_id |-> ""]
NoResp == [status |-> 0, detail |-> <<>>, body |-> <<>>, headers |-> NoHeaders]
NoTool == [launched |-> FALSE, returncode |-> 0, stderr |-> "", wrote |-> FALSE, data |-> <<>>]
NoHealth == [called |-> FALSE, raised |-> FALSE, status |-> "", ffmpeg_available |-> FALSE,
             ffmpeg_version |-> <<>>,
             tool |-> [launched |-> FALSE, returncode |-> 0, stdout |-> <<>>]]

Init ==
  /\ pc = [r \in Reqs |-> "idle"]
  /\ files = [r \in Reqs |-> <<>>]
  /\ method = [r \in Reqs |-> "concat"]
  /\ temp_dir = [r \in Reqs |-> <<>>]
  /\ video_paths = [r \in Reqs |-> <<>>]
  /\ i = [r \in Reqs |-> 0]
  /\ unique_id = [r \in Reqs |-> ""]
  /\ output_path = [r \in Reqs |-> <<>>]
  /\ result_path = [r \in Reqs |-> <<>>]
  /\ file_size = [r \in Reqs |-> 0]
  /\ video_content = [r \in Reqs |-> <<>>]
  /\ exc = [r \in Reqs |-> NoExc]
  /\ toolres = [r \in Reqs |-> NoTool]
  /\ resp = [r \in Reqs |-> NoResp]
  /\ outcome = [r \in Reqs |-> "none"]
  /\ fsDirs = {}
  /\ fsFiles = <<>>
  /\ calls = [r \in Reqs |-> <<>>]
  /\ log = [r \in Reqs |-> <<>>]
  /\ health = NoHealth

\* ------------------------------------------------------ filesystem helpers
Exists(p) == p \in DOMAIN fsFiles \/ p \in fsDirs

\* the directory p is to be in exists
InExistingDir(p) == \E d \in fsDirs : Under(p, d)

\* open(p, 'w').write(c): creates or truncates
WriteFile(fs, p, c) == [q \in (DOMAIN fs) \cup {p} |-> IF q = p THEN c ELSE fs[q]]

\* os.remove(p)
RemoveFile(fs, p) == [q \in (DOMAIN fs) \ {p} |-> fs[q]]

\* shutil.rmtree(d, ignore_errors=True): the tree goes when deletion works;
\* when it does not, the error is ignored and the tree stays
RmTreeFiles(fs, d, ok) ==
  IF ok THEN [q \in { p \in DOMAIN fs : ~Under(p, d) } |-> fs[q]] ELSE fs

RmTreeDirs(dirs, d, ok) == IF ok THEN dirs \ {d} ELSE dirs

RmEvent(ok) == IF ok THEN "rmtree:ok" ELSE "rmtree:failed"

\* ------------------------------------------------------ exception handling
\* classes derived from Exception; asyncio.CancelledError derives from
\* BaseException only
ExceptionClasses == {"HTTPException", "Exception", "OSError", "FileNotFoundError",
                     "ValueError", "UnicodeEncodeError", "CalledProcessError"}

\* the except clauses of lines 209 and 216 match e
CaughtByHandler(e) == e.type \in ExceptionClasses

\* str(e)
StrExc(e) == e.msg

Append1(f, r, x) == [f EXCEPT ![r] = Append(@, x)]

\* raise e inside the try block of lines 152-207: a class the except clauses
\* match is handled at line 216, any other leaves the handler as it is
RaiseInTry(r, e) ==
  IF CaughtByHandler(e)
  THEN /\ pc' = [pc EXCEPT ![r] = "except"]
       /\ exc' = [exc EXCEPT ![r] = e]
       /\ outcome' = outcome
  ELSE /\ pc' = [pc EXCEPT ![r] = "done"]
       /\ exc' = [exc EXCEPT ![r] = e]
       /\ outcome' = [outcome EXCEPT ![r] = "propagated"]

\* ---------------------------------------------------------------- handler
\* a POST /stitch request arrives (lines 134-137)
Receive(r) ==
  /\ pc[r] = "idle"
  /\ UNCHANGED health
  /\ \A q \in Reqs \ {r} : pc[q] = "idle"
  /\ \E fs \in UploadLists, m \in Methods :
        /\ files' = [files EXCEPT ![r] = fs]
        /\ method' = [method EXCEPT ![r] = m]
  /\ pc' = [pc EXCEPT ![r] = "check_count"]
  /\ UNCHANGED <<temp_dir, video_paths, i, unique_id, output_path, result_path,
                 file_size, video_content, exc, toolres, resp, outcome,
                 fsDirs, fsFiles, calls, log>>

\* variant: the count test is off by one
TooFewOffByOne(n) == n < 1

\* len(files) < 2
TooFew(n) == n < 2

\* lines 138-142
CheckCount(r) ==
  /\ pc[r] = "check_count"
  /\ UNCHANGED health
  /\ IF TooFew(Len(files[r]))
     THEN /\ resp' = [resp EXCEPT ![r] =
                 [NoResp EXCEPT !.status = 400,
                                !.detail = <<"At least 2 videos required for stitching. You uploaded ">>
                                           \o Str(Len(files[r])) \o <<" file(s).">>]]
          /\ outcome' = [outcome EXCEPT ![r] = "raised"]
          /\ pc' = [pc EXCEPT ![r] = "done"]
          /\ log' = Append1(log, r, "raise")
     ELSE /\ pc' = [pc EXCEPT ![r] = "mkdtemp"]
          /\ UNCHANGED <<resp, outcome, log>>
  /\ UNCHANGED <<locals, exc, toolres, fsDirs, fsFiles, calls>>

\* lines 145-150: mkdtemp creates a directory that did not exist
Mkdtemp(r) ==
  /\ pc[r] = "mkdtemp"
  /\ UNCHANGED health
  /\ \E d \in TempDirs \ fsDirs :
        /\ temp_dir' = [temp_dir EXCEPT ![r] = d]
        /\ fsDirs' = fsDirs \cup {d}
  /\ video_paths' = [video_paths EXCEPT ![r] = <<>>]
  /\ i' = [i EXCEPT ![r] = 0]
  /\ pc' = [pc EXCEPT ![r] = "loop"]
  /\ log' = Append1(log, r, "mkdtemp")
  /\ UNCHANGED <<files, method, unique_id, output_path, result_path, file_size,
                 video_content, exc, toolres, resp, outcome, fsFiles, calls>>

\* os.path.join(temp_dir, f"input_{i:03d}_{file.filename}")
StagedPath(dir, idx, filename) ==
  PathJoin(dir, <<"input_">> \o Pad3(idx) \o <<"_">> \o filename)

\* lines 154-161: next iteration of the loop, up to the await
LoopHead(r) ==
  /\ pc[r] = "loop"
  /\ UNCHANGED health
  /\ IF i[r] < Len(files[r])
     THEN IF ~ValidExtension(files[r][i[r] + 1].filename)
          THEN RaiseInTry(r, [type |-> "HTTPException",
                              msg |-> <<"400", ": ", "Invalid file type: ">>
                                      \o files[r][i[r] + 1].filename
                                      \o <<". Supported: mp4, avi, mov, mkv, webm">>])
          ELSE /\ pc' = [pc EXCEPT ![r] = "await_read"]
               /\ UNCHANGED <<exc, outcome>>
     ELSE /\ pc' = [pc EXCEPT ![r] = "gen_output"]
          /\ UNCHANGED <<exc, outcome>>
  /\ UNCHANGED <<locals, toolres, resp, fsDirs, fsFiles, calls, log>>

\* line 162: the handler is cancelled while it awaits file.read()
Cancel(r) ==
  /\ pc[r] = "await_read"
  /\ UNCHANGED health
  /\ RaiseInTry(r, [type |-> "CancelledError", msg |-> <<>>])
  /\ UNCHANGED <<locals, toolres, resp, fsDirs, fsFiles, calls, log>>

\* lines 162-166: the read completes and the upload is written; the disk can
\* refuse the open (no file) or the write (an empty file stays)
StageFile(r) ==
  /\ pc[r] = "await_read"
  /\ UNCHANGED health
  /\ LET p == StagedPath(temp_dir[r], i[r], files[r][i[r] + 1].filename)
         c == files[r][i[r] + 1].content
     IN \E fault \in {"none", "open", "write"} :
          /\ InExistingDir(p) \/ fault = "open"
          /\ IF fault = "none"
             THEN /\ fsFiles' = WriteFile(fsFiles, p, c)
                  /\ video_paths' = [video_paths EXCEPT ![r] = Append(@, p)]
                  /\ i' = [i EXCEPT ![r] = @ + 1]
                  /\ pc' = [pc EXCEPT ![r] = "loop"]
                  /\ log' = Append1(log, r, "stage")
                  /\ UNCHANGED <<exc, outcome>>
             ELSE /\ fsFiles' = IF fault = "write" THEN WriteFile(fsFiles, p, <<>>) ELSE fsFiles
                  /\ RaiseInTry(r, [type |-> "OSError", msg |-> <<"[Errno 28] No space left on device">>])
                  /\ UNCHANGED <<video_paths, i, log>>
  /\ UNCHANGED <<files, method, temp_dir, unique_id, output_path, result_path,
                 file_size, video_content, toolres, resp, fsDirs, calls>>

\* lines 169-173
GenOutput(r) ==
  /\ pc[r] = "gen_output"
  /\ UNCHANGED health
  /\ \E u \in Uids :
        /\ unique_id' = [unique_id EXCEPT ![r] = u]
        /\ output_path' = [output_path EXCEPT ![r] =
                             PathJoin(temp_dir[r], <<"stitched_", u, ".mp4">>)]
  /\ pc' = [pc EXCEPT ![r] = "stitch"]
  /\ UNCHANGED <<files, method, temp_dir, video_paths, i, result_path, file_size,
                 video_content, exc, toolres, resp, outcome, fsDirs, fsFiles,
                 calls, log>>

\* ------------------------------------------------------------ VideoStitcher
\* variant: only "filter" selects strategy B
UsesDemuxerUnlessFilter(m) == m # "filter"

\* method == "concat" (line 35)
UsesDemuxer(m) == m = "concat"

\* line 176 and lines 28-38
Stitch(r) ==
  /\ pc[r] = "stitch"
  /\ UNCHANGED health
  /\ IF video_paths[r] = <<>>
     THEN RaiseInTry(r, [type |-> "ValueError", msg |-> <<"No video paths provided">>])
     ELSE /\ pc' = [pc EXCEPT ![r] = IF UsesDemuxer(method[r]) THEN "demuxer" ELSE "filter"]
          /\ UNCHANGED <<exc, outcome>>
  /\ UNCHANGED <<locals, toolres, resp, fsDirs, fsFiles, calls, log>>

\* concat_file = output_path + "_concat_list.txt" (line 42)
ConcatFile(out) == out \o <<"_concat_list.txt">>

\* the lines written at lines 44-46
ManifestLines(paths) ==
  [k \in 1..Len(paths) |-> <<"file '">> \o AbsPath(paths[k]) \o <<"'", "\n">>]

\* the path the concat demuxer takes from a manifest line
ManifestEntry(line) == SubSeq(line, 2, Len(line) - 2)

\* lines 42-46: the manifest is written; the disk can refuse the open (no
\* file) or the write (an empty manifest stays)
WriteManifest(r) ==
  /\ pc[r] = "demuxer"
  /\ UNCHANGED health
  /\ \E fault \in {"none", "open", "write"} :
        /\ InExistingDir(ConcatFile(output_path[r])) \/ fault = "open"
        /\ IF fault = "none"
           THEN /\ fsFiles' = WriteFile(fsFiles, ConcatFile(output_path[r]),
                                        ManifestLines(video_paths[r]))
                /\ pc' = [pc EXCEPT ![r] = "run_demuxer"]
                /\ log' = Append1(log, r, "manifest")
                /\ UNCHANGED <<exc, outcome>>
           ELSE /\ fsFiles' = IF fault = "write"
                              THEN WriteFile(fsFiles, ConcatFile(output_path[r]), <<>>)
                              ELSE fsFiles
                /\ RaiseInTry(r, [type |-> "OSError", msg |-> <<"[Errno 28] No space left on device">>])
                /\ UNCHANGED log
  /\ UNCHANGED <<locals, toolres, resp, fsDirs, calls>>

\* the inputs the concat demuxer finds in the manifest, none when the
\* manifest is not there
ManifestInputs(fs, mf) ==
  IF mf \in DOMAIN fs
  THEN [k \in 1..Len(fs[mf]) |-> ManifestEntry(fs[mf][k])]
  ELSE <<>>

\* the tool writes its output, overwriting (-y)
ToolWrites(fs, out, o) == IF o.wrote THEN WriteFile(fs, out, o.data) ELSE fs

\* variant: strategy A falls back on any failure of the invocation, also
\* when the tool cannot be launched
RunDemuxerCatchesAll(r) ==
  /\ pc[r] = "run_demuxer"
  /\ UNCHANGED health
  /\ \E o \in ToolOutcomes :
        /\ o.wrote => InExistingDir(output_path[r])
        /\ toolres' = [toolres EXCEPT ![r] = o]
        /\ calls' = Append1(calls, r,
                        [strategy |-> "A",
                         manifest |-> ConcatFile(output_path[r]),
                         inputs |-> ManifestInputs(fsFiles, ConcatFile(output_path[r])),
                         labels |-> <<>>,
                         n |-> 0,
                         output |-> output_path[r],
                         res |-> o])
        /\ fsFiles' = ToolWrites(fsFiles, output_path[r], o)
        /\ pc' = [pc EXCEPT ![r] = IF o.launched /\ o.returncode = 0
                                    THEN "demuxer_ok" ELSE "demuxer_failed"]
  /\ log' = Append1(log, r, "toolA")
  /\ UNCHANGED <<locals, exc, outcome, resp, fsDirs>>

\* lines 48-52 and the dispatch on the result: strategy A's invocation
RunDemuxer(r) ==
  /\ pc[r] = "run_demuxer"
  /\ UNCHANGED health
  /\ \E o \in ToolOutcomes :
        /\ o.wrote => InExistingDir(output_path[r])
        /\ toolres' = [toolres EXCEPT ![r] = o]
        /\ calls' = Append1(calls, r,
                        [strategy |-> "A",
                         manifest |-> ConcatFile(output_path[r]),
                         inputs |-> ManifestInputs(fsFiles, ConcatFile(output_path[r])),
                         labels |-> <<>>,
                         n |-> 0,
                         output |-> output_path[r],
                         res |-> o])
        /\ fsFiles' = ToolWrites(fsFiles, output_path[r], o)
        /\ IF ~o.launched
           THEN RaiseInTry(r, [type |-> "FileNotFoundError",
                               msg |-> <<"[Errno 2] No such file or directory: 'ffmpeg'">>])
           ELSE /\ pc' = [pc EXCEPT ![r] = IF o.returncode = 0 THEN "demuxer_ok"
                                                                ELSE "demuxer_failed"]
                /\ UNCHANGED <<exc, outcome>>
  /\ log' = Append1(log, r, "toolA")
  /\ UNCHANGED <<locals, resp, fsDirs>>

\* variant: the manifest is left behind when strategy A succeeds
DemuxerOkKeepsManifest(r) ==
  /\ pc[r] = "demuxer_ok"
  /\ UNCHANGED health
  /\ result_path' = [result_path EXCEPT ![r] = output_path[r]]
  /\ pc' = [pc EXCEPT ![r] = "verify"]
  /\ log' = Append1(log, r, "manifest_removed")
  /\ UNCHANGED <<files, method, temp_dir, video_paths, i, unique_id, output_path,
                 file_size, video_content, exc, toolres, resp, outcome, fsDirs,
                 fsFiles, calls>>

\* variant: strategy B runs after strategy A whatever A's exit status
DemuxerOkThenFilter(r) ==
  /\ pc[r] = "demuxer_ok"
  /\ UNCHANGED health
  /\ fsFiles' = RemoveFile(fsFiles, ConcatFile(output_path[r]))
  /\ pc' = [pc EXCEPT ![r] = "filter"]
  /\ log' = Append1(log, r, "manifest_removed")
  /\ UNCHANGED <<locals, exc, toolres, resp, outcome, fsDirs, calls>>

\* lines 53-56
DemuxerOk(r) ==
  /\ pc[r] = "demuxer_ok"
  /\ UNCHANGED health
  /\ IF ConcatFile(output_path[r]) \in DOMAIN fsFiles
     THEN /\ fsFiles' = RemoveFile(fsFiles, ConcatFile(output_path[r]))
          /\ result_path' = [result_path EXCEPT ![r] = output_path[r]]
          /\ pc' = [pc EXCEPT ![r] = "verify"]
          /\ log' = Append1(log, r, "manifest_removed")
          /\ UNCHANGED <<exc, outcome>>
     ELSE /\ RaiseInTry(r, [type |-> "FileNotFoundError",
                            msg |-> <<"[Errno 2] No such file or directory: ">>
                                    \o ConcatFile(output_path[r])])
          /\ UNCHANGED <<fsFiles, result_path, log>>
  /\ UNCHANGED <<files, method, temp_dir, video_paths, i, unique_id, output_path,
                 file_size, video_content, toolres, resp, fsDirs, calls>>

\* variant: strategy A's failure is raised instead of falling back
DemuxerFailedRaises(r) ==
  /\ pc[r] = "demuxer_failed"
  /\ UNCHANGED health
  /\ fsFiles' = IF ConcatFile(output_path[r]) \in DOMAIN fsFiles
                THEN RemoveFile(fsFiles, ConcatFile(output_path[r]))
                ELSE fsFiles
  /\ RaiseInTry(r, [type |-> "Exception",
                    msg |-> <<"FFmpeg concat failed: ", toolres[r].stderr>>])
  /\ log' = Append1(log, r, "manifest_removed")
  /\ UNCHANGED <<locals, toolres, resp, fsDirs, calls>>

\* lines 57-62: CalledProcessError is caught, the manifest removed and
\* _concat_filter called with the same arguments
DemuxerFailed(r) ==
  /\ pc[r] = "demuxer_failed"
  /\ UNCHANGED health
  /\ fsFiles' = IF ConcatFile(output_path[r]) \in DOMAIN fsFiles
                THEN RemoveFile(fsFiles, ConcatFile(output_path[r]))
                ELSE fsFiles
  /\ pc' = [pc EXCEPT ![r] = "filter"]
  /\ log' = Append1(log, r, "manifest_removed")
  /\ UNCHANGED <<locals, exc, toolres, resp, outcome, fsDirs, calls>>

\* variant: the stream labels count from 1
FilterLabelsOneBased(paths) ==
  [k \in 1..Len(paths) |-> <<"[">> \o Str(k) \o <<":v][">> \o Str(k) \o <<":a]">>]

\* filter_parts of lines 68-70
FilterLabels(paths) ==
  [k \in 1..Len(paths) |-> <<"[">> \o Str(k - 1) \o <<":v][">> \o Str(k - 1) \o <<":a]">>]

\* lines 64-83: strategy B's invocation
RunFilter(r) ==
  /\ pc[r] = "filter"
  /\ UNCHANGED health
  /\ \E o \in ToolOutcomes :
        /\ o.wrote => InExistingDir(output_path[r])
        /\ toolres' = [toolres EXCEPT ![r] = o]
        /\ calls' = Append1(calls, r,
                        [strategy |-> "B",
                         manifest |-> <<>>,
                         inputs |-> video_paths[r],
                         labels |-> FilterLabels(video_paths[r]),
                         n |-> Len(video_paths[r]),
                         output |-> output_path[r],
                         res |-> o])
        /\ fsFiles' = ToolWrites(fsFiles, output_path[r], o)
        /\ IF ~o.launched
           THEN /\ RaiseInTry(r, [type |-> "FileNotFoundError",
                                  msg |-> <<"[Errno 2] No such file or directory: 'ffmpeg'">>])
                /\ UNCHANGED result_path
           ELSE IF o.returncode = 0
           THEN /\ result_path' = [result_path EXCEPT ![r] = output_path[r]]
                /\ pc' = [pc EXCEPT ![r] = "verify"]
                /\ UNCHANGED <<exc, outcome>>
           ELSE /\ RaiseInTry(r, [type |-> "Exception",
                                  msg |-> <<"FFmpeg filter failed: ", o.stderr>>])
                /\ UNCHANGED result_path
  /\ log' = Append1(log, r, "toolB")
  /\ UNCHANGED <<files, method, temp_dir, video_paths, i, unique_id, output_path,
                 file_size, video_content, resp, fsDirs>>

\* ------------------------------------------------- handler, after stitching
\* lines 178-180
VerifyOutput(r) ==
  /\ pc[r] = "verify"
  /\ UNCHANGED health
  /\ IF ~Exists(result_path[r])
     THEN /\ RaiseInTry(r, [type |-> "Exception",
                            msg |-> <<"Output file was not created: ">> \o result_path[r]])
          /\ log' = Append1(log, r, "missing")
     ELSE /\ pc' = [pc EXCEPT ![r] = "read"]
          /\ log' = Append1(log, r, "exists")
          /\ UNCHANGED <<exc, outcome>>
  /\ UNCHANGED <<locals, toolres, resp, fsDirs, fsFiles, calls>>

\* variant: the reported size is taken from the first staged input
ReadOutputSizeOfInput(r) ==
  /\ pc[r] = "read"
  /\ UNCHANGED health
  /\ file_size' = [file_size EXCEPT ![r] = Len(fsFiles[video_paths[r][1]])]
  /\ video_content' = [video_content EXCEPT ![r] = fsFiles[result_path[r]]]
  /\ pc' = [pc EXCEPT ![r] = "cleanup"]
  /\ log' = Append1(log, r, "read")
  /\ UNCHANGED <<files, method, temp_dir, video_paths, i, unique_id, output_path,
                 result_path, exc, toolres, resp, outcome, fsDirs, fsFiles, calls>>

\* lines 182-189
ReadOutput(r) ==
  /\ pc[r] = "read"
  /\ UNCHANGED health
  /\ IF result_path[r] \in DOMAIN fsFiles
     THEN /\ file_size' = [file_size EXCEPT ![r] = Len(fsFiles[result_path[r]])]
          /\ video_content' = [video_content EXCEPT ![r] = fsFiles[result_path[r]]]
          /\ pc' = [pc EXCEPT ![r] = "cleanup"]
          /\ log' = Append1(log, r, "read")
          /\ UNCHANGED <<exc, outcome>>
     ELSE /\ RaiseInTry(r, [type |-> "FileNotFoundError",
                            msg |-> <<"[Errno 2] No such file or directory: ">>
                                    \o result_path[r]])
          /\ UNCHANGED <<file_size, video_content, log>>
  /\ UNCHANGED <<files, method, temp_dir, video_paths, i, unique_id, output_path,
                 result_path, toolres, resp, fsDirs, fsFiles, calls>>

\* variant: the success path leaves the workspace in place
CleanupSkipped(r) ==
  /\ pc[r] = "cleanup"
  /\ UNCHANGED health
  /\ pc' = [pc EXCEPT ![r] = "respond"]
  /\ UNCHANGED <<locals, exc, toolres, resp, outcome, fsDirs, fsFiles, calls, log>>

\* variant: rmtree without ignore_errors, a failed deletion raises
CleanupRaisesOnFailure(r) ==
  /\ pc[r] = "cleanup"
  /\ UNCHANGED health
  /\ \E ok \in BOOLEAN :
        /\ fsFiles' = RmTreeFiles(fsFiles, temp_dir[r], ok)
        /\ fsDirs' = RmTreeDirs(fsDirs, temp_dir[r], ok)
        /\ log' = Append1(log, r, RmEvent(ok))
        /\ IF ok
           THEN /\ pc' = [pc EXCEPT ![r] = "respond"]
                /\ UNCHANGED <<exc, outcome>>
           ELSE RaiseInTry(r, [type |-> "OSError", msg |-> <<"[Errno 13] Permission denied">>])
  /\ UNCHANGED <<locals, toolres, resp, calls>>

\* lines 191-194
Cleanup(r) ==
  /\ pc[r] = "cleanup"
  /\ UNCHANGED health
  /\ \E ok \in BOOLEAN :
        /\ fsFiles' = RmTreeFiles(fsFiles, temp_dir[r], ok)
        /\ fsDirs' = RmTreeDirs(fsDirs, temp_dir[r], ok)
        /\ log' = Append1(log, r, RmEvent(ok))
  /\ pc' = [pc EXCEPT ![r] = "respond"]
  /\ UNCHANGED <<locals, exc, toolres, resp, outcome, calls>>

\* variant: the header names the strategy that produced the output
MethodUsedActual(r) ==
  IF calls[r] # <<>> /\ calls[r][Len(calls[r])].strategy = "A" THEN "concat" ELSE "filter"

\* the value of header X-Method-Used (line 204)
MethodUsed(r) == method[r]

\* lines 196-207: Response(...) encodes every header value as latin-1
Respond(r) ==
  /\ pc[r] = "respond"
  /\ UNCHANGED health
  /\ IF Latin1Encodable(MethodUsed(r))
     THEN /\ resp' = [resp EXCEPT ![r] =
                 [status |-> 200,
                  detail |-> <<>>,
                  body |-> video_content[r],
                  headers |-> [count |-> Str(Len(files[r])),
                               size |-> Str(file_size[r]),
                               method |-> MethodUsed(r),
                               request_id |-> unique_id[r]]]]
          /\ outcome' = [outcome EXCEPT ![r] = "returned"]
          /\ pc' = [pc EXCEPT ![r] = "done"]
          /\ log' = Append1(log, r, "response")
          /\ UNCHANGED exc
     ELSE /\ RaiseInTry(r, [type |-> "UnicodeEncodeError",
                            msg |-> <<"'latin-1' codec can't encode character">>])
          /\ UNCHANGED <<resp, log>>
  /\ UNCHANGED <<locals, toolres, fsDirs, fsFiles, calls>>

\* the status the handler answers with for the exception it caught
\* (lines 212-215 and 219-222)
ErrorStatus(e) == 500

\* variant: the error response hides the cause
ErrorDetailGeneric(e) == <<"Error: ", "Internal Server Error">>

\* detail of the HTTPException raised at lines 212-215 or 219-222
ErrorDetail(e) ==
  IF e.type = "CalledProcessError"
  THEN <<"Video processing failed: ">> \o StrExc(e)
  ELSE <<"Error: ">> \o StrExc(e)

\* lines 209-222
HandleError(r) ==
  /\ pc[r] = "except"
  /\ UNCHANGED health
  /\ \E ok \in BOOLEAN :
        /\ fsFiles' = RmTreeFiles(fsFiles, temp_dir[r], ok)
        /\ fsDirs' = RmTreeDirs(fsDirs, temp_dir[r], ok)
        /\ log' = [log EXCEPT ![r] = @ \o <<RmEvent(ok), "raise">>]
  /\ resp' = [resp EXCEPT ![r] =
         [NoResp EXCEPT !.status = ErrorStatus(exc[r]), !.detail = ErrorDetail(exc[r])]]
  /\ outcome' = [outcome EXCEPT ![r] = "raised"]
  /\ pc' = [pc EXCEPT ![r] = "done"]
  /\ UNCHANGED <<locals, exc, toolres, calls>>

\* ------------------------------------------------------------- GET /health
\* what ffmpeg -version can print on its output stream
VersionOutputs ==
  { <<"ffmpeg version 6.0", "\n", "built with gcc 12", "\n">>,
    <<"ffmpeg version 4.4", "\n">>,
    <<>> }

\* outcomes of subprocess.run(['ffmpeg', '-version'], capture_output=True,
\* check=True, text=True)
HealthOutcomes ==
  { [launched |-> FALSE, returncode |-> 0, stdout |-> <<>>] }
  \cup { [launched |-> TRUE, returncode |-> 0, stdout |-> v] : v \in VersionOutputs }
  \cup { [launched |-> TRUE, returncode |-> 1, stdout |-> <<>>] }

\* result.stdout.split('\n')[0]
RECURSIVE FirstLine(_)
FirstLine(s) ==
  IF s = <<>> \/ Head(s) = "\n" THEN <<>> ELSE <<Head(s)>> \o FirstLine(Tail(s))

\* the exception the invocation raises, "none" when it raises nothing
RunError(o) ==
  IF ~o.launched THEN "FileNotFoundError"
  ELSE IF o.returncode # 0 THEN "CalledProcessError"
  ELSE "none"

\* variant: only a missing executable is caught
HealthCatchesMissingOnly(e) == e = "FileNotFoundError"

\* the bare except of line 106 catches whatever the try block raises
HealthCatches(e) == TRUE

\* lines 100-114
HealthCheck ==
  /\ \E o \in HealthOutcomes :
        health' =
          IF RunError(o) = "none"
          THEN [called |-> TRUE, raised |-> FALSE, status |-> "healthy",
                ffmpeg_available |-> TRUE, ffmpeg_version |-> FirstLine(o.stdout),
                tool |-> o]
          ELSE IF HealthCatches(RunError(o))
          THEN [called |-> TRUE, raised |-> FALSE, status |-> "degraded",
                ffmpeg_available |-> FALSE, ffmpeg_version |-> <<"Not available">>,
                tool |-> o]
          ELSE [called |-> TRUE, raised |-> TRUE, status |-> "",
                ffmpeg_available |-> FALSE, ffmpeg_version |-> <<>>,
                tool |-> o]
  /\ UNCHANGED <<pc, locals, exc, toolres, resp, outcome, fsDirs, fsFiles, calls, log>>

\* ------------------------------------------------------------ specification
Next ==
  \/ HealthCheck
  \/ \E r \in Reqs :
    \/ Receive(r)
    \/ CheckCount(r)
    \/ Mkdtemp(r)
    \/ LoopHead(r)
    \/ Cancel(r)
    \/ StageFile(r)
    \/ GenOutput(r)
    \/ Stitch(r)
    \/ WriteManifest(r)
    \/ RunDemuxer(r)
    \/ DemuxerOk(r)
    \/ DemuxerFailed(r)
    \/ RunFilter(r)
    \/ VerifyOutput(r)
    \/ ReadOutput(r)
    \/ Cleanup(r)
    \/ Respond(r)
    \/ HandleError(r)

Spec == Init /\ [][Next]_vars

\* ------------------------------------------- the same request handled twice
\* upload lists of the replayed request: a.mp4 followed by any upload
TwinLists == { fs \in [1..2 -> Uploads] : fs[1].filename = <<"a", ".", "m", "p", "4">> }

\* a request arrives in the first slot
ReceiveFirst ==
  /\ \A q \in Reqs : pc[q] = "idle"
  /\ \E fs \in TwinLists, m \in Methods :
        /\ files' = [files EXCEPT ![1] = fs]
        /\ method' = [method EXCEPT ![1] = m]
  /\ pc' = [pc EXCEPT ![1] = "check_count"]
  /\ UNCHANGED <<temp_dir, video_paths, i, unique_id, output_path, result_path,
                 file_size, video_content, exc, toolres, resp, outcome,
                 fsDirs, fsFiles, calls, log, health>>

\* once the first handler has ended, the same request arrives again in the
\* second slot
ReceiveAgain ==
  /\ pc[1] = "done"
  /\ pc[2] = "idle"
  /\ files' = [files EXCEPT ![2] = files[1]]
  /\ method' = [method EXCEPT ![2] = method[1]]
  /\ pc' = [pc EXCEPT ![2] = "check_count"]
  /\ UNCHANGED <<temp_dir, video_paths, i, unique_id, output_path, result_path,
                 file_size, video_content, exc, toolres, resp, outcome,
                 fsDirs, fsFiles, calls, log, health>>

NextTwin ==
  \/ ReceiveFirst
  \/ ReceiveAgain
  \/ \E r \in {1, 2} :
    \/ CheckCount(r)
    \/ Mkdtemp(r)
    \/ LoopHead(r)
    \/ Cancel(r)
    \/ StageFile(r)
    \/ GenOutput(r)
    \/ Stitch(r)
    \/ WriteManifest(r)
    \/ RunDemuxer(r)
    \/ DemuxerOk(r)
    \/ DemuxerFailed(r)
    \/ RunFilter(r)
    \/ VerifyOutput(r)
    \/ ReadOutput(r)
    \/ Cleanup(r)
    \/ Respond(r)
    \/ HandleError(r)

SpecTwin == Init /\ [][NextTwin]_vars

\* ------------------------------------------------- two requests at a time
\* the uploads of a concurrent request: a.mp4 then b.webm
ConcLists ==
  { fs \in [1..2 -> Uploads] :
      /\ fs[1].filename = <<"a", ".", "m", "p", "4">>
      /\ fs[2].filename = <<"b", ".", "w", "e", "b", "m">> }

\* a request arrives in slot 1 or 2, whatever the other slot is doing
ReceiveConc(r) ==
  /\ pc[r] = "idle"
  /\ \E fs \in ConcLists, m \in Methods :
        /\ files' = [files EXCEPT ![r] = fs]
        /\ method' = [method EXCEPT ![r] = m]
  /\ pc' = [pc EXCEPT ![r] = "check_count"]
  /\ UNCHANGED <<temp_dir, video_paths, i, unique_id, output_path, result_path,
                 file_size, video_content, exc, toolres, resp, outcome,
                 fsDirs, fsFiles, calls, log, health>>

NextConc ==
  \E r \in {1, 2} :
    \/ ReceiveConc(r)
    \/ CheckCount(r)
    \/ Mkdtemp(r)
    \/ LoopHead(r)
    \/ Cancel(r)
    \/ StageFile(r)
    \/ GenOutput(r)
    \/ Stitch(r)
    \/ WriteManifest(r)
    \/ RunDemuxer(r)
    \/ DemuxerOk(r)
    \/ DemuxerFailed(r)
    \/ RunFilter(r)
    \/ VerifyOutput(r)
    \/ ReadOutput(r)
    \/ Cleanup(r)
    \/ Respond(r)
    \/ HandleError(r)

SpecConc == Init /\ [][NextConc]_vars

\* ------------------------------------------------- vocabulary of the claims
Done(r) == pc[r] = "done"

InLog(r, e) == \E k \in 1..Len(log[r]) : log[r][k] = e

IsRmtree(e) == e \in {"rmtree:ok", "rmtree:failed"}

RmtreeCount(r) == Cardinality({ k \in 1..Len(log[r]) : IsRmtree(log[r][k]) })

Contains(seq, tok) == \E k \in 1..Len(seq) : seq[k] = tok

\* the request created a workspace directory
CreatedWorkspace(r) == InLog(r, "mkdtemp")

\* neither the workspace directory nor a file inside it is on disk
WorkspaceGone(r) ==
  /\ temp_dir[r] \notin fsDirs
  /\ \A p \in DOMAIN fsFiles : ~Under(p, temp_dir[r])

\* the names the interface accepts: those ending in .mp4 .avi .mov .mkv .webm
OnWhitelist(filename) ==
  \/ /\ Len(filename) >= 4
     /\ SubSeq(filename, Len(filename) - 3, Len(filename)) \in
          { <<".", "m", "p", "4">>, <<".", "a", "v", "i">>,
            <<".", "m", "o", "v">>, <<".", "m", "k", "v">> }
  \/ /\ Len(filename) >= 5
     /\ SubSeq(filename, Len(filename) - 4, Len(filename)) = <<".", "w", "e", "b", "m">>

\* some uploaded filename is off the whitelist
HasInvalidName(r) == \E k \in 1..Len(files[r]) : ~OnWhitelist(files[r][k].filename)

\* the k-th tool invocation of the request exited nonzero
ExitedNonzero(r, k) ==
  /\ k <= Len(calls[r])
  /\ calls[r][k].res.launched
  /\ calls[r][k].res.returncode # 0

\* the k-th tool invocation of the request exited 0
ExitedZero(r, k) ==
  /\ k <= Len(calls[r])
  /\ calls[r][k].res.launched
  /\ calls[r][k].res.returncode = 0

\* strategy A was invoked first and exited nonzero
AFailed(r) == Len(calls[r]) >= 1 /\ calls[r][1].strategy = "A" /\ ExitedNonzero(r, 1)

\* the last invocation was strategy B and it exited nonzero
BFailed(r) ==
  /\ Len(calls[r]) >= 1
  /\ calls[r][Len(calls[r])].strategy = "B"
  /\ ExitedNonzero(r, Len(calls[r]))

\* ------------------------------------------------------------------ claims
\* C1 (as claimed): once the handler of a request that created a workspace
\* has returned or raised, the workspace directory and every file in it are
\* off the disk.  A deletion that was carried out and failed is ignored by
\* design (ignore_errors=True) and is not held against the claim here: the
\* claim is read as "the workspace is gone, or its deletion was carried out
\* and failed".
C1_WorkspaceRemovedOnEveryExit ==
  \A r \in Reqs :
    (Done(r) /\ CreatedWorkspace(r)) =>
      (WorkspaceGone(r) \/ InLog(r, "rmtree:failed"))

\* C2 (as claimed): a request with at least 2 files, one of them with a name
\* off the whitelist, that is answered at all is answered with status 400.
C2_InvalidExtensionAnswers400 ==
  \A r \in Reqs :
    (Done(r) /\ Len(files[r]) >= 2 /\ HasInvalidName(r) /\ outcome[r] = "raised") =>
      resp[r].status = 400

\* C3 (as claimed): a request with a filename off the whitelist, at whatever
\* position, never has an upload written into its workspace.
C3_NothingStagedWhenInvalid ==
  \A r \in Reqs :
    HasInvalidName(r) =>
      /\ ~InLog(r, "stage")
      /\ \A p \in DOMAIN fsFiles : ~Under(p, temp_dir[r])

\* C4: a request with a filename off the whitelist, at whatever position,
\* never invokes the external tool: neither strategy A nor strategy B.
C4_NoToolWhenInvalid ==
  \A r \in Reqs :
    HasInvalidName(r) =>
      /\ calls[r] = <<>>
      /\ ~InLog(r, "toolA")
      /\ ~InLog(r, "toolB")

\* C4 witness: a request whose second file is off the whitelist has staged
\* its first file and has been answered.
C4_Witness ==
  \E r \in Reqs :
    /\ Done(r)
    /\ Len(files[r]) >= 2
    /\ OnWhitelist(files[r][1].filename)
    /\ ~OnWhitelist(files[r][2].filename)
    /\ InLog(r, "stage")
    /\ resp[r].status # 0

\* C5: a request with fewer than 2 files is answered with status 400; it
\* creates no workspace directory, so none of its own is on disk, stages no
\* file and does not invoke the external tool.
C5_TooFewFilesRejected ==
  \A r \in Reqs :
    (Len(files[r]) < 2 /\ pc[r] \notin {"idle", "check_count"}) =>
      /\ Done(r)
      /\ resp[r].status = 400
      /\ outcome[r] = "raised"
      /\ ~CreatedWorkspace(r)
      /\ temp_dir[r] = <<>>
      /\ \A d \in fsDirs : \E q \in Reqs \ {r} : temp_dir[q] = d
      /\ ~InLog(r, "stage")
      /\ calls[r] = <<>>

\* C5 witness: a request with exactly one file has been answered.
C5_Witness ==
  \E r \in Reqs : Done(r) /\ Len(files[r]) = 1 /\ resp[r].status = 400

\* C6: with method "concat", once strategy A's invocation has exited nonzero
\* the next invocation is strategy B's, with the same ordered inputs and the
\* same output path; if that invocation exits 0 and the output exists the
\* request ends with a 200 response; and an error response never carries
\* strategy A's diagnostic.
C6_FallbackToFilter ==
  \A r \in Reqs :
    (method[r] = "concat" /\ AFailed(r)) =>
      /\ \/ pc[r] \in {"demuxer_failed", "filter"} /\ Len(calls[r]) = 1
         \/ /\ Len(calls[r]) = 2
            /\ calls[r][2].strategy = "B"
            /\ calls[r][2].inputs = calls[r][1].inputs
            /\ calls[r][2].inputs = video_paths[r]
            /\ calls[r][2].output = calls[r][1].output
      /\ (Done(r) /\ ExitedZero(r, 2) /\ InLog(r, "exists")) =>
           (resp[r].status = 200 /\ outcome[r] = "returned")
      /\ (resp[r].status # 0 /\ Len(calls[r]) = 2
            /\ calls[r][2].res.stderr # calls[r][1].res.stderr) =>
           ~Contains(resp[r].detail, calls[r][1].res.stderr)

\* C6 witness: a "concat" request whose strategy A exited nonzero has been
\* answered 200 after strategy B exited 0.
C6_Witness ==
  \E r \in Reqs :
    /\ Done(r)
    /\ method[r] = "concat"
    /\ AFailed(r)
    /\ ExitedZero(r, 2)
    /\ resp[r].status = 200

\* C7: with a method other than "concat", strategy A is never invoked and no
\* manifest is ever written: the request invokes the tool at most once, and
\* that invocation is strategy B's.
C7_FilterSkipsDemuxer ==
  \A r \in Reqs :
    (pc[r] # "idle" /\ method[r] # "concat") =>
      /\ Len(calls[r]) <= 1
      /\ \A k \in 1..Len(calls[r]) : calls[r][k].strategy = "B"
      /\ ~InLog(r, "toolA")
      /\ ~InLog(r, "manifest")
      /\ \A p \in DOMAIN fsFiles : ~EndsWith(p, <<"_concat_list.txt">>)

\* C7 witness: a "filter" request has been answered 200 after one strategy B
\* invocation.
C7_Witness ==
  \E r \in Reqs :
    /\ Done(r)
    /\ method[r] = "filter"
    /\ Len(calls[r]) = 1
    /\ calls[r][1].strategy = "B"
    /\ resp[r].status = 200

\* C8 (as claimed): when the terminal strategy B exited nonzero, the request
\* ends with a status 500 response that carries the tool's diagnostic, and
\* the workspace is off the disk when the error is raised.
C8_AsClaimed ==
  \A r \in Reqs :
    (Done(r) /\ BFailed(r)) =>
      /\ resp[r].status = 500
      /\ Contains(resp[r].detail, calls[r][Len(calls[r])].res.stderr)
      /\ WorkspaceGone(r)

\* C8 (amended): when the terminal strategy B exited nonzero, the request
\* ends with a status 500 response that carries the tool's diagnostic; the
\* deletion of the workspace is carried out, once, right before the error is
\* raised, and the workspace is off the disk unless that deletion failed.
C8_FilterFailureIs500 ==
  \A r \in Reqs :
    (Done(r) /\ BFailed(r)) =>
      /\ resp[r].status = 500
      /\ outcome[r] = "raised"
      /\ Contains(resp[r].detail, calls[r][Len(calls[r])].res.stderr)
      /\ Len(log[r]) >= 2
      /\ IsRmtree(log[r][Len(log[r]) - 1])
      /\ log[r][Len(log[r])] = "raise"
      /\ RmtreeCount(r) = 1
      /\ (InLog(r, "rmtree:ok") => WorkspaceGone(r))

\* C8 witness: a request whose strategy B exited nonzero has been answered,
\* and its workspace is off the disk.
C8_Witness ==
  \E r \in Reqs :
    /\ Done(r)
    /\ BFailed(r)
    /\ resp[r].status = 500
    /\ WorkspaceGone(r)

\* positions of the events of one kind in the log of a request
Positions(r, S) == { k \in 1..Len(log[r]) : log[r][k] \in S }

\* C9 (as claimed): on the success path the output is read, then the
\* workspace destroyed, then the response built; a 200 response never exists
\* while the workspace does, and the output is never read after the
\* workspace was destroyed.
C9_AsClaimed ==
  \A r \in Reqs :
    /\ resp[r].status = 200 => WorkspaceGone(r)
    /\ \A j \in Positions(r, {"rmtree:ok", "rmtree:failed"}) :
         \A k \in Positions(r, {"read"}) : k < j
    /\ \A k \in Positions(r, {"response"}) :
         \E j \in Positions(r, {"rmtree:ok", "rmtree:failed"}) : j < k

\* C9 (amended): on the success path the output is read, then the deletion
\* of the workspace is carried out, then the response is built; a 200
\* response is never built before that deletion was carried out, the
\* workspace is off the disk by then unless the deletion failed, and the
\* output is never read after the deletion.
C9_ReadDestroyRespond ==
  \A r \in Reqs :
    /\ resp[r].status = 200 =>
         /\ Len(log[r]) >= 3
         /\ log[r][Len(log[r]) - 2] = "read"
         /\ IsRmtree(log[r][Len(log[r]) - 1])
         /\ log[r][Len(log[r])] = "response"
         /\ (log[r][Len(log[r]) - 1] = "rmtree:ok" => WorkspaceGone(r))
    /\ \A j \in Positions(r, {"rmtree:ok", "rmtree:failed"}) :
         \A k \in Positions(r, {"read"}) : k < j
    /\ \A k \in Positions(r, {"response"}) :
         \E j \in Positions(r, {"rmtree:ok", "rmtree:failed"}) : j < k

\* C9 witness: a request has been answered 200 and its workspace is off the
\* disk.
C9_Witness ==
  \E r \in Reqs : Done(r) /\ resp[r].status = 200 /\ WorkspaceGone(r)

\* C10: on every 200 response the method-used header is the method string
\* the client sent, also when strategy A exited nonzero and strategy B
\* produced the output.
C10_MethodUsedIsRequested ==
  \A r \in Reqs :
    resp[r].status = 200 => resp[r].headers.method = method[r]

\* C10 witness: a 200 response to a "concat" request whose output came from
\* strategy B after strategy A exited nonzero.
C10_Witness ==
  \E r \in Reqs :
    /\ resp[r].status = 200
    /\ method[r] = "concat"
    /\ AFailed(r)
    /\ calls[r][Len(calls[r])].strategy = "B"
    /\ calls[r][Len(calls[r])].res.wrote

\* C13: on every 200 response the size header is the number of bytes of the
\* body, and the body is what the last invocation that wrote the output
\* file wrote.
C13_SizeIsBodyLength ==
  \A r \in Reqs :
    resp[r].status = 200 =>
      /\ resp[r].headers.size = Str(Len(resp[r].body))
      /\ \E k \in 1..Len(calls[r]) :
           /\ calls[r][k].res.wrote
           /\ \A j \in (k + 1)..Len(calls[r]) : ~calls[r][j].res.wrote
           /\ resp[r].body = calls[r][k].res.data

\* C13 witness: a 200 response with an empty body, from an empty output.
C13_Witness ==
  \E r \in Reqs :
    /\ resp[r].status = 200
    /\ resp[r].body = <<>>
    /\ resp[r].headers.size = <<"0">>

\* C14: GET /health gives its caller a result and never an error; the result
\* is "degraded" with availability false exactly when the version query
\* could not be launched or exited nonzero, and "healthy" with availability
\* true otherwise.
C14_HealthNeverRaises ==
  health.called =>
    /\ ~health.raised
    /\ IF ~health.tool.launched \/ health.tool.returncode # 0
       THEN health.status = "degraded" /\ health.ffmpeg_available = FALSE
       ELSE health.status = "healthy" /\ health.ffmpeg_available = TRUE

\* C14 witness: a health check whose version query exited nonzero reported
\* "degraded".
C14_Witness ==
  /\ health.called
  /\ health.tool.launched
  /\ health.tool.returncode # 0
  /\ health.status = "degraded"

\* C15 (as claimed): a request that created a workspace has carried out its
\* deletion exactly once when its handler has ended: not zero times, not
\* twice.  Cancellation, where the deletion is carried out zero times, is the
\* subject of C18 and is left aside here.
C15_DestroyedExactlyOnce ==
  \A r \in Reqs :
    (Done(r) /\ CreatedWorkspace(r) /\ exc[r].type # "CancelledError") =>
      RmtreeCount(r) = 1

\* the manifest of the request is on disk
ManifestOnDisk(r) == (output_path[r] \o <<"_concat_list.txt">>) \in DOMAIN fsFiles

\* C16: once strategy A's invocation has completed, with exit status 0 or
\* not, the manifest is deleted before anything else happens: it is on disk
\* neither when stitch has returned the output path nor when strategy B is
\* invoked as fallback.
C16_ManifestDeleted ==
  \A r \in Reqs :
    (Len(calls[r]) >= 1 /\ calls[r][1].strategy = "A" /\ calls[r][1].res.launched
       /\ pc[r] \notin {"demuxer_ok", "demuxer_failed"}) =>
      ~ManifestOnDisk(r)

\* C16 witness: stitch has returned the output path after strategy A exited
\* 0; the output is on disk and the manifest is not.
C16_Witness ==
  \E r \in Reqs :
    /\ pc[r] = "verify"
    /\ Len(calls[r]) = 1
    /\ calls[r][1].strategy = "A"
    /\ ExitedZero(r, 1)
    /\ result_path[r] \in DOMAIN fsFiles
    /\ ~ManifestOnDisk(r)

\* the path the j-th upload of the request is staged at: index prefix j - 1
\* (the first upload has prefix 000)
ExpectedStaged(r, j) ==
  temp_dir[r] \o <<"/", "input_", "0", "0", Digits[j], "_">> \o files[r][j].filename

\* C17: the j-th upload is staged under index prefix j - 1 with its own
\* bytes, is the j-th line of strategy A's manifest and the j-th input of
\* strategy B, labelled [j-1:v][j-1:a]; n is the number of uploads; and
\* strategy B after a fallback gets the inputs in the order strategy A had.
C17_UploadOrderKept ==
  \A r \in Reqs :
    /\ \A j \in 1..Len(video_paths[r]) :
         /\ video_paths[r][j] = ExpectedStaged(r, j)
         /\ video_paths[r][j] \in DOMAIN fsFiles =>
              fsFiles[video_paths[r][j]] = files[r][j].content
    /\ pc[r] = "run_demuxer" =>
         fsFiles[output_path[r] \o <<"_concat_list.txt">>] =
           [j \in 1..Len(files[r]) |-> <<"file '">> \o ExpectedStaged(r, j) \o <<"'", "\n">>]
    /\ \A k \in 1..Len(calls[r]) :
         /\ calls[r][k].inputs = [j \in 1..Len(files[r]) |-> ExpectedStaged(r, j)]
         /\ calls[r][k].strategy = "B" =>
              /\ calls[r][k].n = Len(files[r])
              /\ calls[r][k].labels =
                   [j \in 1..Len(files[r]) |->
                      <<"[", Digits[j], ":v][", Digits[j], ":a]">>]
    /\ Len(calls[r]) = 2 => calls[r][2].inputs = calls[r][1].inputs

\* C17 witness: three uploads, the first two different, went through
\* strategy A and then strategy B.
C17_Witness ==
  \E r \in Reqs :
    /\ Len(files[r]) = 3
    /\ files[r][1] # files[r][2]
    /\ Len(calls[r]) = 2
    /\ calls[r][1].strategy = "A"
    /\ calls[r][2].strategy = "B"

\* C18 (as claimed): a request cancelled at the await of an upload's bytes,
\* after its workspace was created, has carried out the deletion of the
\* workspace when its handler has ended.
C18_CancelStillCleansUp ==
  \A r \in Reqs :
    (Done(r) /\ exc[r].type = "CancelledError") => RmtreeCount(r) >= 1

\* the invocations of one strategy
CallsOf(r, st) == { k \in 1..Len(calls[r]) : calls[r][k].strategy = st }

\* C19: a request invokes the tool at most twice, each strategy at most
\* once, strategy A never after strategy B, and strategy B after strategy A
\* only when A exited nonzero; a strategy B invocation that exited nonzero
\* is the last one, and the request ends with an error.
C19_AtMostTwoInvocations ==
  \A r \in Reqs :
    /\ Len(calls[r]) <= 2
    /\ Cardinality(CallsOf(r, "A")) <= 1
    /\ Cardinality(CallsOf(r, "B")) <= 1
    /\ \A a \in CallsOf(r, "A") : \A b \in CallsOf(r, "B") : a < b /\ ExitedNonzero(r, a)
    /\ \A b \in CallsOf(r, "B") :
         ExitedNonzero(r, b) =>
           /\ b = Len(calls[r])
           /\ pc[r] \in {"except", "done"}
           /\ Done(r) => (outcome[r] = "raised" /\ resp[r].status = 500)

\* C19 witness: strategy B exited nonzero after strategy A did, and the
\* request has ended with an error.
C19_Witness ==
  \E r \in Reqs :
    /\ Done(r)
    /\ Len(calls[r]) = 2
    /\ ExitedNonzero(r, 1)
    /\ ExitedNonzero(r, 2)
    /\ resp[r].status = 500

\* strategy A's invocation could not be launched
ANotLaunched(r) ==
  Len(calls[r]) >= 1 /\ calls[r][1].strategy = "A" /\ ~calls[r][1].res.launched

\* every upload was staged and the manifest of strategy A could not be
\* written
ManifestNotWritten(r) ==
  /\ method[r] = "concat"
  /\ Len(files[r]) >= 2
  /\ Len(video_paths[r]) = Len(files[r])
  /\ pc[r] \in {"except", "done"}
  /\ exc[r].type = "OSError"

\* C20 (as claimed): when strategy A fails without an exit status (the tool
\* cannot be launched, the manifest cannot be written), strategy B is not
\* invoked, the request ends with status 500 and the workspace, with any
\* manifest left in it, is off the disk.
C20_AsClaimed ==
  \A r \in Reqs :
    (ANotLaunched(r) \/ ManifestNotWritten(r)) =>
      /\ CallsOf(r, "B") = {}
      /\ Done(r) => (resp[r].status = 500 /\ WorkspaceGone(r))

\* C20 (amended): when strategy A fails without an exit status, strategy B
\* is not invoked, the request ends with status 500, the deletion of the
\* workspace is carried out once before the error is raised, and the
\* workspace, with any manifest left in it, is off the disk unless that
\* deletion failed.
C20_NoFallbackWithoutExitStatus ==
  \A r \in Reqs :
    (ANotLaunched(r) \/ ManifestNotWritten(r)) =>
      /\ CallsOf(r, "B") = {}
      /\ pc[r] \in {"except", "done"}
      /\ Done(r) =>
           /\ resp[r].status = 500
           /\ outcome[r] = "raised"
           /\ RmtreeCount(r) = 1
           /\ IsRmtree(log[r][Len(log[r]) - 1])
           /\ log[r][Len(log[r])] = "raise"
           /\ (InLog(r, "rmtree:ok") => (WorkspaceGone(r) /\ ~ManifestOnDisk(r)))

\* C20 witness: the tool could not be launched for strategy A; the request
\* has ended with status 500 and the workspace, where the manifest was
\* left, is off the disk.
C20_Witness ==
  \E r \in Reqs :
    /\ Done(r)
    /\ ANotLaunched(r)
    /\ resp[r].status = 500
    /\ WorkspaceGone(r)

\* the steps of the request before the first deletion of its workspace
BeforeDeletion(r) ==
  LET rm == { k \in 1..Len(log[r]) : IsRmtree(log[r][k]) }
  IN IF rm = {} THEN log[r]
     ELSE SubSeq(log[r], 1, (CHOOSE k \in rm : \A j \in rm : k <= j) - 1)

\* two requests that ran the same way up to the deletion of their
\* workspaces: the same uploads and method, the same directory and request
\* identifier, the same steps, the same tool results, and both cancelled or
\* neither
SameUpToDeletion(r, q) ==
  /\ files[r] = files[q]
  /\ method[r] = method[q]
  /\ temp_dir[r] = temp_dir[q]
  /\ unique_id[r] = unique_id[q]
  /\ calls[r] = calls[q]
  /\ BeforeDeletion(r) = BeforeDeletion(q)
  /\ (exc[r].type = "CancelledError") = (exc[q].type = "CancelledError")

\* C11: two requests that ran the same way up to the deletion of their
\* workspaces end the same way, with the same status and the same body or
\* error detail, whether the deletions succeeded or failed.
C11_DeletionFailureChangesNothing ==
  \A r \in Reqs : \A q \in Reqs :
    (Done(r) /\ Done(q) /\ SameUpToDeletion(r, q)) =>
      /\ outcome[r] = outcome[q]
      /\ resp[r] = resp[q]

\* C11 witness: of two requests that ran the same way, the first deleted
\* its workspace, the deletion of the second failed, and both were answered
\* 200.
C11_Witness ==
  \E r \in Reqs : \E q \in Reqs :
    /\ Done(r) /\ Done(q)
    /\ SameUpToDeletion(r, q)
    /\ InLog(r, "rmtree:ok")
    /\ InLog(q, "rmtree:failed")
    /\ resp[q].status = 200

\* the request is being handled
InFlight(r) == pc[r] \notin {"idle", "done"}

\* the request has a workspace it has not yet set out to destroy
HoldsWorkspace(r) ==
  /\ InFlight(r)
  /\ CreatedWorkspace(r)
  /\ RmtreeCount(r) = 0

\* the paths the request has made: staged inputs, manifest, output
PathsOf(r) ==
  { video_paths[r][k] : k \in 1..Len(video_paths[r]) }
    \cup (IF output_path[r] = <<>> THEN {}
          ELSE {output_path[r], ConcatFile(output_path[r])})

\* the files the request still needs: the inputs it staged, the manifest
\* while strategy A works from it, and the output it is about to read
StillNeeds(r) ==
  { video_paths[r][k] : k \in 1..Len(video_paths[r]) }
    \cup (IF pc[r] \in {"run_demuxer", "demuxer_ok"}
          THEN {ConcatFile(output_path[r])} ELSE {})
    \cup (IF pc[r] = "read" THEN {result_path[r]} ELSE {})

\* C12: of two requests handled at the same time, each holding a workspace,
\* the workspace directories are distinct, no staged input, manifest or
\* output path of one lies in the workspace of the other, and the workspace
\* of each and every file it still needs are on disk: the other request's
\* destruction of its workspace has removed none of them.
C12_WorkspacesPrivate ==
  \A r \in Reqs : \A q \in Reqs \ {r} :
    /\ (HoldsWorkspace(r) /\ HoldsWorkspace(q)) =>
         /\ temp_dir[r] # temp_dir[q]
         /\ \A p \in PathsOf(r) : ~Under(p, temp_dir[q])
    /\ (HoldsWorkspace(r) /\ pc[q] # "idle") =>
         /\ temp_dir[r] \in fsDirs
         /\ \A p \in StillNeeds(r) : p \in DOMAIN fsFiles

====
